---- MODULE Spec2Model ----
(***************************************************************************)
(* Execution context and remote-key lifecycle of distarray's Context       *)
(* (distarray/context.py): target validation, creation of the MPI          *)
(* intracommunicator, engine/rank alignment, generation of key names, and  *)
(* purge / delete / dump / teardown of the keys held in the engines'       *)
(* global namespaces.                                                      *)
(*                                                                         *)
(* Key names are modelled as the character strings the code builds         *)
(* (sequences of one-character strings), so that str.startswith is the     *)
(* real prefix test.  uuid4 hex strings are shortened to one or two         *)
(* hexadecimal digits.                                                     *)
(***************************************************************************)
EXTENDS Integers, Sequences, FiniteSets, TLC

\* ------------------------------------------------------------------ bounds
NumEngines == 2      \* engines registered with the IPython client
MaxContexts == 2     \* Context objects constructed against the pool
MaxTargets == 2      \* longest explicit target list passed to Context()
MaxKeys == 3         \* key names one context generates over its lifetime
MaxPoolKeys == 5     \* key names all the contexts of the pool generate
MaxValue == 1        \* values pushed are 1 .. MaxValue
MaxIoKeys == 8       \* key names one context generates when it saves and loads
MaxIoPoolKeys == 12  \* key names all the contexts generate when they do
MaxUfuncKeys == 9       \* key names one context generates when it applies
                        \* elementwise functions
MaxUfuncPoolKeys == 16  \* key names all the contexts generate when they
                        \* apply elementwise functions
MaxCalls == 3        \* requests a caller sends one after another

\* ------------------------------------------------------------ basic values
Engines == 0 .. (NumEngines - 1)
BadEngines == {NumEngines, NumEngines + 1}    \* ids that are not registered
Contexts == 1 .. MaxContexts
NoTargets == << -1 >>                \* the argument targets=None
None == << "None" >>                 \* Python's None where a string may stand

Range(s) == { s[i] : i \in 1 .. Len(s) }

\* uuid4().hex is a string of hexadecimal digits.  A key's suffix keeps one
\* digit of it; uuid4 never gives one process the same value twice, so the
\* n-th suffix a context draws is the n-th digit.  Different contexts draw
\* independently, so their suffixes do coincide.
HexAlphabet == << "c", "a", "0", "f", "1", "e", "d", "b", "2", "3" >>
Uuid4Hex(n) == << HexAlphabet[n] >>
\* key_context keeps two digits of uid.hex[:16], the first of them "c", the
\* hexadecimal digit the comm prefix begins with
Uuid4Hex16(n) == << "c", HexAlphabet[n] >>

PushValues == 1 .. MaxValue

TargetLists ==
    UNION { [1 .. n -> Engines \cup BadEngines] : n \in 1 .. MaxTargets }

\* ------------------------------------------------------- key name strings
BaseTag == << "_", "_", "d", "i", "s", "t", "a", "r", "r", "a", "y", "_" >>
Underscore == << "_" >>
CommPrefix == << "c", "o", "m", "m" >>
ModDistarray == << "d", "i", "s", "t", "a", "r", "r", "a", "y" >>
ModNumpy == << "n", "u", "m", "p", "y" >>

StartsWith(k, h) == Len(h) <= Len(k) /\ SubSeq(k, 1, Len(h)) = h

_key_base(prefix) ==
    IF prefix # None THEN BaseTag \o Underscore \o prefix ELSE BaseTag

\* a header that leaves the context id out
_key_header_NoContext(kc, prefix) == _key_base(prefix)

_key_header(kc, prefix) == _key_base(prefix) \o Underscore \o kc

_generate_key(kc, prefix, uid) == _key_header(kc, prefix) \o Underscore \o uid

\* --------------------------------------------------------------- the state
VARIABLES
    poolOpen,     \* the Client's connection is open (Client.close() not called)
    commSize,     \* COMM_PRIVATE.Get_size() of the pool-wide communicator
    worldRank,    \* engine id -> COMM_PRIVATE.Get_rank() on that engine
    ns,           \* engine id -> that engine's globals(): name -> value
    status,       \* context -> position in the object's life
    requested,    \* context -> the workers its constructor was asked for
    subRank,      \* context -> engine -> rank in the context's communicator
    targets,      \* context -> self.targets
    keyContext,   \* context -> self.key_context (Unset before it is assigned)
    commKey,      \* context -> self._comm_key (Unset, None or a key name)
    gen,          \* context -> the key names _generate_key has returned to it
    collision,    \* some _generate_key call returned a name returned before
    lastOp,       \* the last call made on a context and what it did
    files,        \* the file system the engines share: file name -> content
    wire          \* the requests a caller has sent through _execute, _push
                  \* and _pull, and how far the engines are with them

vars == << poolOpen, commSize, worldRank, ns, status, requested, subRank,
           targets, keyContext, commKey, gen, collision, lastOp, files,
           wire >>

\* the data files on disk before any context exists: one .npy file and one
\* .hdf5 file
NpyName == << "x", ".", "n", "p", "y" >>
H5Name == << "x", ".", "h", "d", "f", "5" >>
ExternalFiles == [x \in {NpyName, H5Name} |-> 0]

Unset == << "unset" >>               \* an attribute that was never assigned
AllTargets == [i \in 1 .. NumEngines |-> i - 1]       \* self.view.targets

\* values held under a name in an engine's globals()
ModuleVal == [kind |-> "module", v |-> 0]
CommNull == [kind |-> "comm_null", v |-> -1]
CommVal(r) == [kind |-> "comm", v |-> r]
IntVal(i) == [kind |-> "int", v |-> i]
ListVal(keys) == [kind |-> "list", v |-> 0, keys |-> keys]

EmptyNs == [k \in {} |-> ModuleVal]
Bind(f, k, val) == [x \in (DOMAIN f) \cup {k} |-> IF x = k THEN val ELSE f[x]]
Unbind(f, K) == [x \in (DOMAIN f) \ K |-> f[x]]

\* one remote call, as the pool sees it
\* (arg: the rank list written into the command, where it carries one)
CallArg(cmd, tg, ok, arg) == [cmd |-> cmd, tg |-> tg, ok |-> ok, arg |-> arg]
Call(cmd, tg, ok) == CallArg(cmd, tg, ok, << >>)

Op(op, c, calls, err) ==
    [op |-> op, ctx |-> c, req |-> << >>, prefix |-> None, all |-> FALSE,
     again |-> FALSE, calls |-> calls, err |-> err, errId |-> -1,
     pulled |-> << >>, result |-> << >>, name |-> << >>, da |-> << >>]

NoOp == Op("none", 0, << >>, "none")

TypeOK ==
    /\ poolOpen \in BOOLEAN
    /\ commSize \in NumEngines .. (NumEngines + 1)
    /\ worldRank \in [Engines -> 0 .. NumEngines]
    /\ \A e \in Engines : \A k \in DOMAIN ns[e] : ns[e][k].kind \in
           {"module", "comm_null", "comm", "int", "list", "arr", "str",
            "names"}
    /\ status \in [Contexts -> {"none", "failed", "finalizing", "finalized",
                                "ready", "closing", "closed", "reclosing",
                                "blocked"}]
    /\ \A c \in Contexts : Range(targets[c]) \subseteq Engines
    /\ collision \in BOOLEAN

\* The pool-wide communicator has one rank per MPI process.  Every engine is
\* an MPI process; the communicator may hold one process more than the
\* engines registered with the client.  Engine ids and pool-wide ranks run
\* in opposite orders.  Context objects are constructed in the order of
\* their index.
Init ==
    /\ poolOpen = TRUE
    /\ commSize \in NumEngines .. (NumEngines + 1)
    /\ worldRank = [e \in Engines |-> NumEngines - 1 - e]
    /\ ns = [e \in Engines |-> EmptyNs]
    /\ status = [c \in Contexts |-> "none"]
    /\ requested = [c \in Contexts |-> {}]
    /\ subRank = [c \in Contexts |-> << >>]
    /\ targets = [c \in Contexts |-> << >>]
    /\ keyContext = [c \in Contexts |-> Unset]
    /\ commKey = [c \in Contexts |-> Unset]
    /\ gen = [c \in Contexts |-> {}]
    /\ collision = FALSE
    /\ lastOp = NoOp
    /\ files = ExternalFiles
    /\ wire = [calls |-> << >>, queue |-> [e \in Engines |-> << >>],
               applied |-> [e \in Engines |-> << >>], waiting |-> 0]

\* ------------------------------------------------- the pool's remote calls
\* view.execute("import distarray.local; import distarray.mpiutils; import
\* numpy"): binds the module names on every engine of the view.
ExecImport(nsv) ==
    [e \in Engines |-> Bind(Bind(nsv[e], ModDistarray, ModuleVal),
                            ModNumpy, ModuleVal)]

\* the execute that creates the communicator addressing the targets only
CreateCommTargets_Selected(tg) == Range(tg)

\* view.execute('<key> = distarray.mpiutils.create_comm_with_list(<ranks>)',
\* block=True) is given no targets: it runs on every engine of the view
CreateCommTargets(tg) == Engines

\* Creating a communicator is collective over COMM_PRIVATE: it returns only
\* when every process of COMM_PRIVATE has called it.
CollectiveCompletes(called) ==
    { worldRank[e] : e \in called } = 0 .. (commSize - 1)

\* '<key> = distarray.mpiutils.create_comm_with_list(<ranks>)' on the
\* engines called: each binds <key>; an engine whose pool-wide rank is in the
\* list gets the new communicator, in which its rank is sub[engine], the
\* others get the null communicator.
ExecCreateComm(nsv, called, key, ranks, sub) ==
    [e \in Engines |->
        IF e \in called
        THEN Bind(nsv[e], key,
                  IF worldRank[e] \in Range(ranks) THEN CommVal(sub[e])
                  ELSE CommNull)
        ELSE nsv[e]]

\* view.execute('<rank> = <comm_key>.Get_rank()', targets=tg)
ExecGetRank(nsv, tg, rankKey, cKey) ==
    [e \in Engines |->
        IF e \in tg THEN Bind(nsv[e], rankKey, IntVal(nsv[e][cKey].v))
        ELSE nsv[e]]

\* view.push({key: value}, targets=tg)
ExecPush(nsv, tg, key, val) ==
    [e \in Engines |-> IF e \in tg THEN Bind(nsv[e], key, val) ELSE nsv[e]]

\* the rank assignments a communicator over `members` can have
SubRanks(members) ==
    { f \in [members -> 0 .. (Cardinality(members) - 1)] :
        \A a, b \in members : a # b => f[a] # f[b] }

\* --------------------------------------------------------- key generation
\* _setup_key_context: key_context = uuid4().hex[:16], distinct from the
\* key_context of every other context of the pool
UsedCtxIds == { keyContext[c] : c \in Contexts } \ {Unset}
_setup_key_context == Uuid4Hex16(Cardinality(UsedCtxIds) + 1)
AllGenerated == UNION { { g.key : g \in gen[c] } : c \in Contexts }
\* the suffix of the next key of context c, and the one after it
NextUid(c) == Uuid4Hex(Cardinality(gen[c]) + 1)
NextUid2(c) == Uuid4Hex(Cardinality(gen[c]) + 2)
CanGenerate(c, n) ==
    /\ Cardinality(gen[c]) + n <= MaxKeys
    /\ Cardinality(AllGenerated) + n <= MaxPoolKeys
GenRec(kc, prefix, uid) ==
    [key |-> _generate_key(kc, prefix, uid), prefix |-> prefix, uid |-> uid]

\* ------------------------------------------------------- Context.__init__
CanConstruct(c) ==
    /\ status[c] = "none"
    /\ \A d \in 1 .. (c - 1) : status[d] # "none"

InitTargets(req) == IF req = NoTargets THEN AllTargets ELSE req
Workers(req) == Range(InitTargets(req))

\* the last unregistered target instead of the first
FirstBad_Last(req) ==
    IF req = NoTargets \/ \A i \in 1 .. Len(req) : req[i] \in Range(AllTargets)
    THEN 0
    ELSE CHOOSE i \in 1 .. Len(req) :
            /\ req[i] \notin Range(AllTargets)
            /\ \A j \in (i + 1) .. Len(req) : req[j] \in Range(AllTargets)

\* index of the first requested target that is not registered, 0 if none
FirstBad(req) ==
    IF req = NoTargets \/ \A i \in 1 .. Len(req) : req[i] \in Range(AllTargets)
    THEN 0
    ELSE CHOOSE i \in 1 .. Len(req) :
            /\ req[i] \notin Range(AllTargets)
            /\ \A j \in 1 .. (i - 1) : req[j] \in Range(AllTargets)

Requests == TargetLists \cup {NoTargets}

\* the loop over targets raises ValueError at the first unregistered id
CreateUnknownTarget(c, req) ==
    /\ CanConstruct(c)
    /\ FirstBad(req) # 0
    /\ requested' = [requested EXCEPT ![c] = Workers(req)]
    /\ UNCHANGED subRank
    /\ status' = [status EXCEPT ![c] = "failed"]
    /\ targets' = [targets EXCEPT ![c] = SubSeq(req, 1, FirstBad(req) - 1)]
    /\ lastOp' = [Op("create", c, << >>, "ValueError:not registered")
                    EXCEPT !.req = req, !.errId = req[FirstBad(req)]]
    /\ UNCHANGED << poolOpen, commSize, worldRank, ns, keyContext, commKey,
                    gen, collision >>
    /\ UNCHANGED << files, wire >>

\* the client was closed: the first remote call (the import) cannot be sent
CreatePoolClosed(c, req) ==
    /\ CanConstruct(c)
    /\ FirstBad(req) = 0
    /\ ~poolOpen
    /\ requested' = [requested EXCEPT ![c] = Workers(req)]
    /\ UNCHANGED subRank
    /\ status' = [status EXCEPT ![c] = "failed"]
    /\ targets' = [targets EXCEPT ![c] = InitTargets(req)]
    /\ lastOp' = [Op("create", c,
                      << Call("execute:import", Engines, FALSE) >>,
                      "ConnectionError") EXCEPT !.req = req]
    /\ UNCHANGED << poolOpen, commSize, worldRank, ns, keyContext, commKey,
                    gen, collision >>
    /\ UNCHANGED << files, wire >>

\* the ranks reported by one engine of the view only
RankMapValues_OneEngine == { worldRank[e] : e \in {0} }

\* set(rank_map.values()): rank_map holds an entry for every engine of the view
RankMapValues == { worldRank[e] : e \in Engines }
\* the check made with issubset instead of set equality
ViewCoversComm_Subset == RankMapValues \subseteq 0 .. (commSize - 1)

ViewCoversComm == RankMapValues = 0 .. (commSize - 1)
\* the engine ids taken for pool-wide ranks
Ranks_EngineIds(tg) == tg

\* ranks = [ rank_map[engine] for engine in self.targets ]
Ranks(tg) == [i \in 1 .. Len(tg) |-> worldRank[tg[i]]]

CallsToSizeCheck ==
    << Call("execute:import", Engines, TRUE),
       Call("apply:get_rank", Engines, TRUE),
       Call("apply:get_size", Engines, TRUE) >>

\* _make_intracomm raises ValueError: the view's engines do not hold every
\* rank of COMM_PRIVATE
CreateIncompleteGroup(c, req) ==
    /\ CanConstruct(c)
    /\ FirstBad(req) = 0
    /\ poolOpen
    /\ ~ViewCoversComm
    /\ keyContext' = [keyContext EXCEPT ![c] = _setup_key_context]
    /\ requested' = [requested EXCEPT ![c] = Workers(req)]
    /\ UNCHANGED subRank
    /\ status' = [status EXCEPT ![c] = "failed"]
    /\ targets' = [targets EXCEPT ![c] = InitTargets(req)]
    /\ ns' = ExecImport(ns)
    /\ lastOp' = [Op("create", c, CallsToSizeCheck,
                      "ValueError:must encompass all MPI ranks")
                    EXCEPT !.req = req]
    /\ UNCHANGED << poolOpen, commSize, worldRank, commKey, gen, collision >>
    /\ UNCHANGED << files, wire >>

HasDuplicates(s) == \E i, j \in 1 .. Len(s) : i # j /\ s[i] = s[j]

\* A rank list that names a rank twice is an erroneous argument of
\* MPI_Group_incl; one outcome is that the collective raises on the engines.
CreateCommError(c, req) ==
    /\ CanConstruct(c)
    /\ FirstBad(req) = 0
    /\ poolOpen
    /\ ViewCoversComm
    /\ HasDuplicates(Ranks(InitTargets(req)))
    /\ LET kc == _setup_key_context
           g1 == GenRec(kc, CommPrefix, NextUid(c)) IN
           /\ keyContext' = [keyContext EXCEPT ![c] = kc]
           /\ commKey' = [commKey EXCEPT ![c] = g1.key]
           /\ gen' = [gen EXCEPT ![c] = @ \cup {g1}]
           /\ collision' = (collision \/ g1.key \in AllGenerated)
    /\ requested' = [requested EXCEPT ![c] = Workers(req)]
    /\ UNCHANGED subRank
    /\ status' = [status EXCEPT ![c] = "failed"]
    /\ targets' = [targets EXCEPT ![c] = InitTargets(req)]
    /\ ns' = ExecImport(ns)
    /\ lastOp' = [Op("create", c,
                      CallsToSizeCheck \o
                      << CallArg("execute:create_comm",
                                 CreateCommTargets(InitTargets(req)), FALSE,
                                 Ranks(InitTargets(req))) >>,
                      "RemoteError") EXCEPT !.req = req]
    /\ UNCHANGED << poolOpen, commSize, worldRank >>
    /\ UNCHANGED << files, wire >>

\* target -> rank as pulled, and its inverse {v: k for (k, v) in ...}
TargetToRank(nsv, tg, rankKey) ==
    [e \in Range(tg) |-> nsv[e][rankKey].v]
RankToTarget(t2r) ==
    [r \in { t2r[e] : e \in DOMAIN t2r } |->
        CHOOSE e \in DOMAIN t2r : t2r[e] = r]

\* an entry for every target, answered or not
Reply_EveryTarget(t2r, replied) == t2r

\* get_dict() of the pull: an entry for every engine that answered
Reply(t2r, replied) == [e \in replied |-> t2r[e]]

\* the two assertions of _set_engine_rank_mapping
MappingConsistent(tg, t2r) ==
    /\ Range(tg) = DOMAIN t2r
    /\ 0 .. (Len(tg) - 1) = DOMAIN RankToTarget(t2r)

\* the list built one rank off
ReorderTargets_OffByOne(t2r) ==
    LET r2t == RankToTarget(t2r)
        n == Cardinality(DOMAIN r2t)
    IN [i \in 1 .. n |-> r2t[i % n]]

\* self.targets = [rank_to_target[i] for i in range(len(rank_to_target))]
ReorderTargets(t2r) ==
    LET r2t == RankToTarget(t2r) IN
    [i \in 1 .. Cardinality(DOMAIN r2t) |-> r2t[i - 1]]

\* the communicator is formed; _set_engine_rank_mapping then either aligns
\* self.targets with the communicator's ranks or fails its assertions.  (A
\* collective that some process of COMM_PRIVATE never enters does not
\* return: the constructor stays blocked in the execute.)
CreateFormedBy(c, req, sub, replied) ==
    /\ CanConstruct(c)
    /\ FirstBad(req) = 0
    /\ poolOpen
    /\ ViewCoversComm
    /\ LET tg == InitTargets(req) IN
         LET kc == _setup_key_context
             g1 == GenRec(kc, CommPrefix, NextUid(c))
             g2 == GenRec(kc, None, NextUid2(c))
             called == CreateCommTargets(tg)
             done == CollectiveCompletes(called)
             ns1 == ExecCreateComm(ExecImport(ns), called, g1.key,
                                   Ranks(tg), sub)
             ns2 == ExecGetRank(ns1, Range(tg), g2.key, g1.key)
             t2r == Reply(TargetToRank(ns2, tg, g2.key), replied)
             ok == MappingConsistent(tg, t2r)
             comm == CallArg("execute:create_comm", called, done, Ranks(tg))
         IN
           /\ requested' = [requested EXCEPT ![c] = Workers(req)]
           /\ keyContext' = [keyContext EXCEPT ![c] = kc]
           /\ commKey' = [commKey EXCEPT ![c] = g1.key]
           /\ IF done
              THEN
                /\ subRank' = [subRank EXCEPT ![c] = sub]
                /\ gen' = [gen EXCEPT ![c] = @ \cup {g1, g2}]
                /\ collision' = (collision \/ g1.key \in AllGenerated
                                  \/ g2.key \in AllGenerated
                                  \/ g1.key = g2.key)
                /\ ns' = ns2
                /\ targets' = [targets EXCEPT ![c] =
                                 IF ok THEN ReorderTargets(t2r) ELSE tg]
                /\ status' = [status EXCEPT ![c] =
                                IF ok THEN "ready" ELSE "failed"]
                /\ lastOp' = [Op("create", c,
                                  CallsToSizeCheck \o
                                  << comm,
                                     Call("execute:get_rank", Range(tg), TRUE),
                                     Call("pull", Range(tg), TRUE) >>,
                                  IF ok THEN "none" ELSE "AssertionError")
                                EXCEPT !.req = req]
              ELSE
                /\ UNCHANGED subRank
                /\ gen' = [gen EXCEPT ![c] = @ \cup {g1}]
                /\ collision' = (collision \/ g1.key \in AllGenerated)
                /\ ns' = ExecImport(ns)
                /\ targets' = [targets EXCEPT ![c] = tg]
                /\ status' = [status EXCEPT ![c] = "blocked"]
                /\ lastOp' = [Op("create", c, CallsToSizeCheck \o << comm >>,
                                  "blocked") EXCEPT !.req = req]
    /\ UNCHANGED << poolOpen, commSize, worldRank >>
    /\ UNCHANGED << files, wire >>

\* the construction on a pool whose MPI layer and client behave: the new
\* communicator numbers its members 0 .. n-1, each once, and the pull is
\* answered by every target
CreateFormed(c, req) ==
    \E sub \in SubRanks(Workers(req)) :
        CreateFormedBy(c, req, sub, Workers(req))

\* what Get_rank of the new communicator may report on a pool that is not
\* trusted to behave: any number from 0 to n for each member
ReportedRanks(members) == [members -> 0 .. Cardinality(members)]

\* the construction whatever the targets report and whichever of them answer
CreateReported(c, req) ==
    \E sub \in ReportedRanks(Workers(req)), replied \in SUBSET Workers(req) :
        CreateFormedBy(c, req, sub, replied)

Create(c, req) ==
    \/ CreateUnknownTarget(c, req)
    \/ CreatePoolClosed(c, req)
    \/ CreateIncompleteGroup(c, req)
    \/ CreateCommError(c, req)
    \/ CreateFormed(c, req)

\* ------------------------------------------------ key management routines
\* The caller uses a context (push, delete, purge, dump) while the client is
\* open; with the client closed only construction and teardown are run.
Outcome(nsv, err, calls) == [ns |-> nsv, err |-> err, calls |-> calls]

\* a loop that stops after the first name it deletes
PurgedNames_FirstOnly(names, header, commHeader, all) ==
    LET hit == { k \in names :
                   /\ StartsWith(k, header)
                   /\ all => ~StartsWith(k, commHeader) }
    IN IF hit = {} THEN {} ELSE { CHOOSE k \in hit : TRUE }

\* the loop purge_keys runs on an engine: the names it deletes there
PurgedNames(names, header, commHeader, all) ==
    { k \in names :
        /\ StartsWith(k, header)
        /\ all => ~StartsWith(k, commHeader) }

\* the loop run on every engine of the pool
ExecPurge_WholePool(nsv, tg, header, commHeader, all) ==
    [e \in Engines |->
        Unbind(nsv[e], PurgedNames(DOMAIN nsv[e], header, commHeader, all))]

ExecPurge(nsv, tg, header, commHeader, all) ==
    [e \in Engines |->
        IF e \in tg
        THEN Unbind(nsv[e], PurgedNames(DOMAIN nsv[e], header, commHeader, all))
        ELSE nsv[e]]

\* purge_keys sweeping with the base name in both modes
purge_keys_BaseHeader(c, prefix, all) ==
    IF keyContext[c] = Unset
    THEN Outcome(ns, "AttributeError", << >>)
    ELSE
      LET tg == Range(targets[c])
          header == _key_base(prefix)
          commHeader == _key_header(keyContext[c], CommPrefix)
      IN IF ~poolOpen
         THEN Outcome(ns, "ConnectionError",
                      << Call("execute:purge", tg, FALSE) >>)
         ELSE Outcome(ExecPurge(ns, tg, header, commHeader, all), "none",
                      << Call("execute:purge", tg, TRUE) >>)

\* purge_keys(prefix, all_contexts) of context c
purge_keys(c, prefix, all) ==
    IF keyContext[c] = Unset
    THEN Outcome(ns, "AttributeError", << >>)
    ELSE
      LET tg == Range(targets[c])
          header == IF all THEN _key_base(prefix)
                    ELSE _key_header(keyContext[c], prefix)
          commHeader == _key_header(keyContext[c], CommPrefix)
      IN IF ~poolOpen
         THEN Outcome(ns, "ConnectionError",
                      << Call("execute:purge", tg, FALSE) >>)
         ELSE Outcome(ExecPurge(ns, tg, header, commHeader, all), "none",
                      << Call("execute:purge", tg, TRUE) >>)

\* 'del <key>' on the engines of tg: an engine that does not hold the name
\* raises NameError, and 'del None' does not compile on any engine
ExecDel(nsv, tg, key) ==
    [e \in Engines |-> IF e \in tg THEN Unbind(nsv[e], {key}) ELSE nsv[e]]

\* a del that raises for a name that does not compile only
DelFails_NoneOnly(nsv, tg, key) == key = None

DelFails(nsv, tg, key) ==
    key = None \/ \E e \in tg : key \notin DOMAIN nsv[e]

\* delete_key(key) of context c
delete_key(c, key) ==
    LET tg == Range(targets[c]) IN
    IF ~poolOpen
    THEN Outcome(ns, "ConnectionError", << Call("execute:del", tg, FALSE) >>)
    ELSE IF DelFails(ns, tg, key)
    THEN Outcome(ExecDel(ns, tg, key), "RemoteError",
                 << Call("execute:del", tg, FALSE) >>)
    ELSE Outcome(ExecDel(ns, tg, key), "none",
                 << Call("execute:del", tg, TRUE) >>)

Prefixes == {None, CommPrefix}

\* the call before this one was the same purge_keys call, and it completed
SamePurge(c, prefix, all) ==
    /\ lastOp.op = "purge" /\ lastOp.ctx = c /\ lastOp.err = "none"
    /\ lastOp.prefix = prefix /\ lastOp.all = all

PurgeKeys(c, prefix, all) ==
    /\ status[c] = "ready"
    /\ poolOpen
    /\ LET r == purge_keys(c, prefix, all) IN
         /\ ns' = r.ns
         /\ lastOp' = [Op("purge", c, r.calls, r.err)
                         EXCEPT !.prefix = prefix, !.all = all,
                                !.again = SamePurge(c, prefix, all)]
    /\ UNCHANGED << poolOpen, commSize, worldRank, status, requested,
                    subRank, targets, keyContext, commKey, gen, collision >>
    /\ UNCHANGED << files, wire >>

OrdinaryKeys(c) == { g.key : g \in { h \in gen[c] : h.prefix = None } }

DeleteKey(c, key) ==
    /\ status[c] = "ready"
    /\ poolOpen
    /\ key \in OrdinaryKeys(c)
    /\ LET r == delete_key(c, key) IN
         /\ ns' = r.ns
         /\ lastOp' = Op("delete", c, r.calls, r.err)
    /\ UNCHANGED << poolOpen, commSize, worldRank, status, requested,
                    subRank, targets, keyContext, commKey, gen, collision >>
    /\ UNCHANGED << files, wire >>

\* _key_and_push(value): one key generated, the value pushed under it
KeyAndPush(c, val) ==
    /\ status[c] = "ready"
    /\ poolOpen
    /\ CanGenerate(c, 1)
    /\ LET g == GenRec(keyContext[c], None, NextUid(c))
           tg == Range(targets[c])
       IN
         /\ gen' = [gen EXCEPT ![c] = @ \cup {g}]
         /\ collision' = (collision \/ g.key \in AllGenerated)
         /\ ns' = ExecPush(ns, tg, g.key, IntVal(val))
         /\ lastOp' = Op("push", c, << Call("push", tg, TRUE) >>, "none")
    /\ UNCHANGED << poolOpen, commSize, worldRank, status, requested,
                    subRank, targets, keyContext, commKey >>
    /\ UNCHANGED << files, wire >>

\* sorted() on key names: Python compares strings by character code
CharOrder ==
    << "0", "1", "2", "3", "_", "a", "b", "c", "d", "e", "f", "i", "m", "n",
       "o", "p", "r", "s", "t", "u", "y" >>
Ord(ch) == CHOOSE i \in 1 .. Len(CharOrder) : CharOrder[i] = ch

StrLess(a, b) ==
    \E i \in 1 .. (Len(b)) :
        /\ i <= Len(a) + 1
        /\ \A j \in 1 .. (i - 1) : a[j] = b[j]
        /\ (i = Len(a) + 1 \/ Ord(a[i]) < Ord(b[i]))

RECURSIVE Sorted(_)
Sorted(S) ==
    IF S = {} THEN << >>
    ELSE LET m == CHOOSE x \in S : \A y \in S \ {x} : StrLess(x, y)
         IN << m >> \o Sorted(S \ {m})

\* view.execute('<dump_key> = [k for k in globals().keys()
\*                             if k.startswith("<header>")]', targets=tg)
ExecDump(nsv, tg, dumpKey, header) ==
    [e \in Engines |->
        IF e \in tg
        THEN Bind(nsv[e], dumpKey,
                  ListVal({ k \in DOMAIN nsv[e] : StartsWith(k, header) }))
        ELSE nsv[e]]

\* the values returned in the order of the engine ids
_pull_AscendingIds(nsv, tg, k) ==
    LET Among(e) == e \in Range(tg)
        ids == SelectSeq(AllTargets, Among)
    IN [i \in 1 .. Len(tg) |-> nsv[ids[((i - 1) % Len(ids)) + 1]][k]]

\* view.pull(k, targets=self.targets, block=True): the client sends the
\* request to the engines in the order of the targets argument and returns
\* their replies in that order, one value per target
_pull(nsv, tg, k) == [i \in 1 .. Len(tg) |-> nsv[tg[i]][k]]

\* the position in the pulled list recorded instead of self.targets[iengine]
DumpResult_EngineIndex(tg, keylists) ==
    LET names == UNION { keylists[i].keys : i \in 1 .. Len(tg) }
        sorted == Sorted(names)
        Holders(key) ==
            LET Holds(i) == key \in keylists[i].keys
                idx == SelectSeq([i \in 1 .. Len(tg) |-> i], Holds)
            IN [j \in 1 .. Len(idx) |-> idx[j] - 1]
    IN [n \in 1 .. Len(sorted) |->
            [key |-> sorted[n], targets |-> Holders(sorted[n])]]

\* the list dump_keys builds from the pulled key lists:
\* (key name, targets holding it), sorted by key name
DumpResult(tg, keylists) ==
    LET names == UNION { keylists[i].keys : i \in 1 .. Len(tg) }
        sorted == Sorted(names)
        Holders(key) ==
            LET Holds(i) == key \in keylists[i].keys
                idx == SelectSeq([i \in 1 .. Len(tg) |-> i], Holds)
            IN [j \in 1 .. Len(idx) |-> tg[idx[j]]]
    IN [n \in 1 .. Len(sorted) |->
            [key |-> sorted[n], targets |-> Holders(sorted[n])]]

\* dump_keys(prefix, all_contexts) of context c
DumpKeys(c, prefix, all) ==
    /\ status[c] = "ready"
    /\ poolOpen
    /\ CanGenerate(c, 1)
    /\ LET g == GenRec(keyContext[c], None, NextUid(c))
           tg == targets[c]
           header == IF all THEN _key_base(prefix)
                     ELSE _key_header(keyContext[c], prefix)
           ns1 == ExecDump(ns, Range(tg), g.key, header)
       IN
         /\ gen' = [gen EXCEPT ![c] = @ \cup {g}]
         /\ collision' = (collision \/ g.key \in AllGenerated)
         /\ ns' = ns1
         /\ lastOp' = [Op("dump", c,
                          << Call("execute:dump", Range(tg), TRUE),
                             Call("pull", Range(tg), TRUE) >>, "none")
                         EXCEPT !.prefix = prefix, !.all = all,
                                !.pulled = _pull(ns1, tg, g.key),
                                !.result =
                                    DumpResult(tg, _pull(ns1, tg, g.key))]
    /\ UNCHANGED << poolOpen, commSize, worldRank, status, requested,
                    subRank, targets, keyContext, commKey >>
    /\ UNCHANGED << files, wire >>

\* ------------------------------------------------------------- teardown
\* __del__ / _cleanup_keys, first call: purge_keys()
Entered(st) ==
    CASE st = "ready" -> "closing"
      [] st = "closed" -> "reclosing"
      [] OTHER -> "finalizing"
Left(st) ==
    CASE st \in {"ready", "closing", "closed", "reclosing"} -> "closed"
      [] OTHER -> "finalized"

\* a teardown that leaves the purge for after the deletion
CleanupPurge_Skipped(c) ==
    /\ status[c] \in {"ready", "closed", "failed"}
    /\ LET r == purge_keys(c, None, FALSE) IN
         /\ status' = [status EXCEPT ![c] =
                         IF r.err = "none" THEN Entered(@) ELSE Left(@)]
         /\ lastOp' = [Op("cleanup_purge", c, << >>, r.err)
                         EXCEPT !.again = (status[c] = "closed")]
    /\ UNCHANGED << poolOpen, commSize, worldRank, ns, requested, subRank,
                    targets, keyContext, commKey, gen, collision >>
    /\ UNCHANGED << files, wire >>

CleanupPurge(c) ==
    /\ status[c] \in {"ready", "closed", "failed"}
    /\ LET r == purge_keys(c, None, FALSE) IN
         /\ ns' = r.ns
         /\ status' = [status EXCEPT ![c] =
                         IF r.err = "none" THEN Entered(@) ELSE Left(@)]
         /\ lastOp' = [Op("cleanup_purge", c, r.calls, r.err)
                         EXCEPT !.again = (status[c] = "closed")]
    /\ UNCHANGED << poolOpen, commSize, worldRank, requested, subRank,
                    targets, keyContext, commKey, gen, collision >>
    /\ UNCHANGED << files, wire >>

\* _cleanup_keys, second call: delete_key(self._comm_key) when the object
\* has the attribute, then self._comm_key = None
CleanupDelComm(c) ==
    /\ status[c] \in {"closing", "reclosing", "finalizing"}
    /\ status' = [status EXCEPT ![c] = Left(@)]
    /\ IF commKey[c] = Unset
       THEN /\ lastOp' = [Op("cleanup", c, << >>, "none")
                            EXCEPT !.again = (status[c] = "reclosing")]
            /\ UNCHANGED << ns, commKey >>
       ELSE LET r == delete_key(c, commKey[c]) IN
            /\ ns' = r.ns
            /\ commKey' = IF r.err = "none"
                          THEN [commKey EXCEPT ![c] = None] ELSE commKey
            /\ lastOp' = [Op("cleanup", c, r.calls, r.err)
                            EXCEPT !.again = (status[c] = "reclosing")]
    /\ UNCHANGED << poolOpen, commSize, worldRank, requested, subRank,
                    targets, keyContext, gen, collision >>
    /\ UNCHANGED << files, wire >>

\* Client.close()
ClientClose ==
    /\ poolOpen
    /\ poolOpen' = FALSE
    /\ lastOp' = Op("client_close", 0, << >>, "none")
    /\ UNCHANGED << commSize, worldRank, ns, status, requested, subRank,
                    targets, keyContext, commKey, gen, collision >>
    /\ UNCHANGED << files, wire >>

\* ------------------------------------------- arrays, save and load
\* a local array, a pushed string and a pushed list of strings
ArrVal(v) == [kind |-> "arr", v |-> v]
StrVal(name) == [kind |-> "str", v |-> 0, keys |-> name]
NamesVal(names) == [kind |-> "names", v |-> 0, keys |-> names]

DigitChars == << "0", "1", "2", "3", "4", "5", "6", "7", "8", "9" >>
\* str(rank)
Str(r) == << DigitChars[r + 1] >>
ExtDnpy == << ".", "d", "n", "p", "y" >>

\* the name argument of save and load: a string, a list of strings, or a
\* value that is neither
BaseName == << "f" >>
ListNames == << << "a" >>, << "b" >>, << "c" >>, << "d" >>, << "e" >> >>
NameList(n) == [i \in 1 .. n |-> ListNames[i]]
NameArgs ==
    {[kind |-> "str", val |-> BaseName], [kind |-> "other", val |-> << >>]}
    \cup { [kind |-> "list", val |-> NameList(n)] : n \in 1 .. MaxTargets + 1 }

CanGenerateIO(c, n) ==
    /\ Cardinality(gen[c]) + n <= MaxIoKeys
    /\ Cardinality(AllGenerated) + n <= MaxIoPoolKeys
\* the n-th key after those context c has generated
NextKey(c, n) == GenRec(keyContext[c], None, Uuid4Hex(Cardinality(gen[c]) + n))

\* the DistArray objects of context c: keys under which every target of c
\* holds a local array
Arrays(c) ==
    { k \in { g.key : g \in gen[c] } :
        \A e \in Range(targets[c]) :
            k \in DOMAIN ns[e] /\ ns[e][k].kind = "arr" }

\* distarray.local.save on the engines: every file of `writes` holds the
\* content written to it, the other files are as they were
LocalSaved(fs, writes) ==
    [x \in (DOMAIN fs) \cup (DOMAIN writes) |->
        IF x \in DOMAIN writes THEN writes[x] ELSE fs[x]]

\* distarray.local.load (and load_npy, load_hdf5) on an engine: the local
\* array read from the file
LocalLoad(fs, fname) == ArrVal(fs[fname])

\* the names of S bound to val in namespace f
BindAll(f, S, val) ==
    [x \in (DOMAIN f) \cup S |-> IF x \in S THEN val ELSE f[x]]

\* what is not a variable of the array and file operations
IoUnchanged ==
    UNCHANGED << poolOpen, commSize, worldRank, status, requested, subRank,
                 targets, keyContext, commKey, wire >>

\* the check made after the argument was pushed
Raised_AfterPush(op, c, err, name) ==
    /\ lastOp' = [Op(op, c, << Call("push", Range(targets[c]), TRUE) >>, err)
                    EXCEPT !.name = name]
    /\ ns' = ExecPush(ns, Range(targets[c]), NextKey(c, 1).key, IntVal(0))
    /\ UNCHANGED << files, wire >>

\* a call that raised before it reached the pool
Raised(op, c, err, name) ==
    /\ lastOp' = [Op(op, c, << >>, err) EXCEPT !.name = name]
    /\ UNCHANGED << ns, files >>

\* empty(shape, dtype, dist, grid_shape): _key_and_push binds the four
\* arguments under four keys, then '<da_key> = distarray.local.empty(...,
\* <comm_key>)' runs on the targets.  The content of a new empty array is
\* whatever the memory held.
EmptyIf(c, room) ==
    /\ status[c] = "ready"
    /\ poolOpen
    /\ room
    /\ \E content \in [Range(targets[c]) -> 0 .. MaxValue] :
         LET tg == Range(targets[c])
             args == { NextKey(c, n) : n \in 1 .. 4 }
             da == NextKey(c, 5)
             ns1 == [e \in Engines |->
                       IF e \in tg
                       THEN BindAll(ns[e], { g.key : g \in args }, IntVal(0))
                       ELSE ns[e]]
             Runs(e) == commKey[c] \in DOMAIN ns1[e]
             ok == \A e \in tg : Runs(e)
         IN
           /\ gen' = [gen EXCEPT ![c] = @ \cup args \cup {da}]
           /\ collision' = (collision
                            \/ \E g \in args \cup {da} : g.key \in AllGenerated)
           /\ ns' = [e \in Engines |->
                       IF e \in tg /\ Runs(e)
                       THEN Bind(ns1[e], da.key, ArrVal(content[e]))
                       ELSE ns1[e]]
           /\ lastOp' = [Op("empty", c,
                            << Call("push", tg, TRUE),
                               Call("execute:empty", tg, ok) >>,
                            IF ok THEN "none" ELSE "RemoteError")
                           EXCEPT !.da = da.key]
    /\ UNCHANGED files
    /\ IoUnchanged

Empty(c) == EmptyIf(c, CanGenerateIO(c, 5))

\* the file an engine of rank r uses: <name>_<rank>.dnpy for a string, the
\* entry of the list at index rank for a list
FileName(name, r) ==
    IF name.kind = "str"
    THEN name.val \o Underscore \o Str(r) \o ExtDnpy
    ELSE name.val[r + 1]

\* indexing the list with a rank it has no entry for raises IndexError on the
\* engine
HasName(name, r) == name.kind = "str" \/ r + 1 \in 1 .. Len(name.val)

\* the rank taken from COMM_PRIVATE instead of the context's communicator
LoadRank_World(c, nsv, e) == worldRank[e]

\* <comm_key>.Get_rank() on engine e
LoadRank(c, nsv, e) == nsv[e][commKey[c]].v

\* the value pushed for the name argument
PushedName(name) ==
    IF name.kind = "str" THEN StrVal(name.val) ELSE NamesVal(name.val)

\* the checks save and load make on the name argument: the error raised, or
\* "none"
NameCheck(c, name) ==
    IF name.kind = "str" THEN "none"
    ELSE IF name.kind = "list"
    THEN IF Len(name.val) # Len(targets[c])
         THEN "TypeError:must be the same length as self.targets"
         ELSE "none"
    ELSE "TypeError:must be a string or a list"

\* save(name, da): the name is pushed under a new key, then every target
\* runs distarray.local.save(<file name for da.comm_rank>, <da>)
Save(c, name, da) ==
    /\ status[c] = "ready"
    /\ poolOpen
    /\ da \in Arrays(c)
    /\ IF NameCheck(c, name) # "none"
       THEN /\ Raised("save", c, NameCheck(c, name), name)
            /\ UNCHANGED << gen, collision >>
       ELSE
         /\ CanGenerateIO(c, 1)
         /\ LET tg == Range(targets[c])
                g == NextKey(c, 1)
                Written(e) == FileName(name, subRank[c][e])
                writers == { e \in tg : HasName(name, subRank[c][e]) }
                ok == writers = tg
            IN
              /\ gen' = [gen EXCEPT ![c] = @ \cup {g}]
              /\ collision' = (collision \/ g.key \in AllGenerated)
              /\ ns' = ExecPush(ns, tg, g.key, PushedName(name))
              /\ files' =
                   LocalSaved(files,
                              [x \in { Written(e) : e \in writers } |->
                                 ns[CHOOSE e \in writers :
                                        Written(e) = x][da].v])
              /\ lastOp' = [Op("save", c,
                               << Call("push", tg, TRUE),
                                  Call("execute:save", tg, ok) >>,
                               IF ok THEN "none" ELSE "RemoteError")
                              EXCEPT !.name = name, !.da = da]
    /\ IoUnchanged

\* load(name): a key for the new array is generated, the name is checked and
\* pushed under a second key, then every target runs
\* '<da_key> = distarray.local.load(<file name for comm.Get_rank()>, <comm>)'
Load(c, name) ==
    /\ status[c] = "ready"
    /\ poolOpen
    /\ CanGenerateIO(c, 1)
    /\ LET da == NextKey(c, 1) IN
       IF NameCheck(c, name) # "none"
       THEN /\ Raised("load", c, NameCheck(c, name), name)
            /\ gen' = [gen EXCEPT ![c] = @ \cup {da}]
            /\ collision' = (collision \/ da.key \in AllGenerated)
       ELSE
         /\ CanGenerateIO(c, 2)
         /\ LET tg == Range(targets[c])
                g == NextKey(c, 2)
                ns1 == ExecPush(ns, tg, g.key, PushedName(name))
                Reads(e) ==
                    /\ commKey[c] \in DOMAIN ns1[e]
                    /\ HasName(name, LoadRank(c, ns1, e))
                    /\ FileName(name, LoadRank(c, ns1, e)) \in DOMAIN files
                ok == \A e \in tg : Reads(e)
            IN
              /\ gen' = [gen EXCEPT ![c] = @ \cup {da, g}]
              /\ collision' = (collision \/ da.key \in AllGenerated
                                 \/ g.key \in AllGenerated)
              /\ ns' = [e \in Engines |->
                          IF e \in tg /\ Reads(e)
                          THEN Bind(ns1[e], da.key,
                                    LocalLoad(files,
                                              FileName(name,
                                                  LoadRank(c, ns1, e))))
                          ELSE ns1[e]]
              /\ UNCHANGED files
              /\ lastOp' = [Op("load", c,
                               << Call("push", tg, TRUE),
                                  Call("execute:load", tg, ok) >>,
                               IF ok THEN "none" ELSE "RemoteError")
                              EXCEPT !.name = name, !.da = da.key]
    /\ IoUnchanged

\* the lengths of the dim_data_per_process argument
DimDataLens == 1 .. (MaxTargets + 1)

\* what load_npy and load_hdf5 have in common: the count check, then nkeys
\* keys generated (the array's, and those of the pushed arguments) and the
\* file read by every target
LoadFile(op, c, n, fname, nkeys, pushes) ==
    /\ status[c] = "ready"
    /\ poolOpen
    /\ IF Len(targets[c]) # n
       THEN /\ Raised(op, c,
                      "TypeError:must contain a dim_data for every process",
                      [kind |-> "dim_data", val |-> n])
            /\ UNCHANGED << gen, collision >>
       ELSE
         /\ CanGenerateIO(c, nkeys)
         /\ LET tg == Range(targets[c])
                da == NextKey(c, 1)
                args == { NextKey(c, i) : i \in 2 .. nkeys }
                ns1 == [e \in Engines |->
                          IF e \in tg
                          THEN BindAll(ns[e], { g.key : g \in args }, IntVal(0))
                          ELSE ns[e]]
                Reads(e) ==
                    commKey[c] \in DOMAIN ns1[e] /\ fname \in DOMAIN files
                ok == \A e \in tg : Reads(e)
            IN
              /\ gen' = [gen EXCEPT ![c] = @ \cup args \cup {da}]
              /\ collision' = (collision
                               \/ \E g \in args \cup {da} :
                                      g.key \in AllGenerated)
              /\ ns' = [e \in Engines |->
                          IF e \in tg /\ Reads(e)
                          THEN Bind(ns1[e], da.key, LocalLoad(files, fname))
                          ELSE ns1[e]]
              /\ UNCHANGED files
              /\ lastOp' = [Op(op, c,
                               pushes \o << Call("execute:" \o op, tg, ok) >>,
                               IF ok THEN "none" ELSE "RemoteError")
                              EXCEPT !.name = [kind |-> "dim_data", val |-> n],
                                     !.da = da.key]
    /\ IoUnchanged

\* load_npy(filename, dim_data_per_process): filename and dim_data pushed in
\* one push
LoadNpy(c, n) ==
    LoadFile("load_npy", c, n, NpyName, 3,
             << Call("push", Range(targets[c]), TRUE) >>)

\* load_hdf5(filename, dim_data_per_process, key): filename and dim_data
\* pushed in one push, key in a second
LoadHdf5(c, n) ==
    LoadFile("load_hdf5", c, n, H5Name, 4,
             << Call("push", Range(targets[c]), TRUE),
                Call("push", Range(targets[c]), TRUE) >>)

\* what the caller does with a constructed context, the prefix argument of
\* purge_keys and dump_keys taken from P
Use(c, P) ==
    \/ \E val \in PushValues : KeyAndPush(c, val)
    \/ \E key \in AllGenerated : DeleteKey(c, key)
    \/ \E prefix \in P, all \in BOOLEAN : PurgeKeys(c, prefix, all)
    \/ \E prefix \in P, all \in BOOLEAN : DumpKeys(c, prefix, all)

Teardown(c) == CleanupPurge(c) \/ CleanupDelComm(c)

\* requests that name registered engines only, each once
ValidRequests ==
    { req \in Requests :
        FirstBad(req) = 0 /\ ~HasDuplicates(InitTargets(req)) }

\* Contexts that share one open pool: every context is constructed
\* successfully, and is used (purge_keys and dump_keys without a prefix) and
\* torn down while the others live.
Next ==
    \E c \in Contexts :
        \/ \E req \in ValidRequests : CreateFormed(c, req)
        \/ Use(c, {None})
        \/ Teardown(c)

Spec == Init /\ [][Next]_vars

\* One context over its whole life, with every way its construction fails
\* and with the client closed at any moment.
NextOne ==
    \/ \E req \in Requests : Create(1, req)
    \/ Use(1, Prefixes)
    \/ Teardown(1)
    \/ ClientClose

SpecOne == Init /\ [][NextOne]_vars

\* One context that creates arrays, saves them to files and loads files.
NextIO ==
    \/ \E req \in ValidRequests : CreateFormed(1, req)
    \/ Empty(1)
    \/ \E name \in NameArgs, da \in AllGenerated : Save(1, name, da)
    \/ \E name \in NameArgs : Load(1, name)
    \/ \E n \in DimDataLens : LoadNpy(1, n)
    \/ \E n \in DimDataLens : LoadHdf5(1, n)

SpecIO == Init /\ [][NextIO]_vars

\* Contexts on one open pool that create arrays, save them and load what
\* was saved.
NextRoundTrip ==
    \E c \in Contexts :
        \/ \E req \in ValidRequests : CreateFormed(c, req)
        \/ Empty(c)
        \/ \E name \in NameArgs, da \in AllGenerated : Save(c, name, da)
        \/ \E name \in NameArgs : Load(c, name)

SpecRoundTrip == Init /\ [][NextRoundTrip]_vars

\* ------------------------------------------ elementwise functions of arrays
\* an argument of a proxy function: a DistArray (its context and key), a
\* scalar, or an object that is neither
ArrayArg(c, k) == [kind |-> "array", ctx |-> c, key |-> k, val |-> 0]
ScalarArg(v) == [kind |-> "scalar", ctx |-> 0, key |-> << >>, val |-> v]
OtherArg == [kind |-> "other", ctx |-> 0, key |-> << >>, val |-> 0]

Operands ==
    UNION { { ArrayArg(c, k) : k \in Arrays(c) } :
            c \in { d \in Contexts : status[d] = "ready" } }
    \cup { ScalarArg(v) : v \in 0 .. MaxValue }
    \cup {OtherArg}

\* what a.distribution.is_compatible(b.distribution) may answer
IsCompatibleAnswers == BOOLEAN

\* determine_context(*args): the contexts of the DistArray arguments, in
\* order; TypeError if there is none, ContextError if one differs from the
\* first, else the first
determine_context(args) ==
    LET arrs == SelectSeq(args, LAMBDA x : x.kind = "array")
    IN IF arrs = << >>
       THEN [err |-> "TypeError:must take DistArray", ctx |-> 0]
       ELSE IF \E i \in 1 .. Len(arrs) : arrs[i].ctx # arrs[1].ctx
       THEN [err |-> "ContextError", ctx |-> 0]
       ELSE [err |-> "none", ctx |-> arrs[1].ctx]

\* room for n more keys of context c
CanGenerateUfunc(c, n) ==
    /\ Cardinality(gen[c]) + n <= MaxUfuncKeys
    /\ Cardinality(AllGenerated) + n <= MaxUfuncPoolKeys

\* Context._execute(self, lines) takes no targets argument
ExecuteTakesTargets == FALSE

UfuncUnchanged ==
    UNCHANGED << poolOpen, commSize, worldRank, status, requested, subRank,
                 targets, keyContext, commKey, files, wire >>

\* a proxy function that raised before it generated a key
UfuncRaised(op, c, err) ==
    /\ lastOp' = Op(op, c, << >>, err)
    /\ UNCHANGED << ns, gen, collision >>

\* the end of both proxy functions in context c, after `pushed` scalars were
\* pushed: new_key = context._generate_key(), then
\* context._execute(exec_str, targets=...), a call with a keyword argument
\* that _execute does not have, which raises TypeError before anything is
\* sent
UfuncExecute(op, c, pushed, nsv) ==
    /\ ~ExecuteTakesTargets
    /\ CanGenerateUfunc(c, pushed + 1)
    /\ LET new == { NextKey(c, n) : n \in 1 .. (pushed + 1) } IN
         /\ gen' = [gen EXCEPT ![c] = @ \cup new]
         /\ collision' = (collision \/ \E g \in new : g.key \in AllGenerated)
         /\ ns' = nsv
         /\ lastOp' = [Op(op, c,
                          IF pushed = 0 THEN << >>
                          ELSE << Call("push", Range(targets[c]), TRUE) >>,
                          "TypeError:unexpected keyword argument targets")
                         EXCEPT !.result = NextKey(c, pushed + 1).key]

\* a function of unary_names called with a
UnaryOp(a) ==
    /\ poolOpen
    /\ LET d == determine_context(<< a >>) IN
         IF d.err # "none"
         THEN UfuncRaised("unary", 0, d.err)
         ELSE UfuncExecute("unary", d.ctx, 0, ns)
    /\ UfuncUnchanged

\* a function of binary_names called with a and b
BinaryOp(a, b, compat) ==
    /\ poolOpen
    /\ LET d == determine_context(<< a, b >>)
           c == d.ctx
           PushScalar(x) ==
               ExecPush(ns, Range(targets[c]), NextKey(c, 1).key,
                        IntVal(x.val))
       IN
         IF d.err # "none"
         THEN UfuncRaised("binary", 0, d.err)
         ELSE IF a.kind = "array" /\ b.kind = "array"
         THEN IF ~compat
              THEN UfuncRaised("binary", c, "ValueError:not compatible")
              ELSE UfuncExecute("binary", c, 0, ns)
         ELSE IF a.kind = "array" /\ b.kind = "scalar"
         THEN UfuncExecute("binary", c, 1, PushScalar(b))
         ELSE IF b.kind = "array" /\ a.kind = "scalar"
         THEN UfuncExecute("binary", c, 1, PushScalar(a))
         ELSE UfuncRaised("binary", c, "TypeError:only DistArray or scalars")
    /\ UfuncUnchanged

\* Contexts on one open pool that create arrays and apply the elementwise
\* functions to them.
NextUfunc ==
    \/ \E c \in Contexts :
          \/ \E req \in ValidRequests : CreateFormed(c, req)
          \/ EmptyIf(c, CanGenerateUfunc(c, 5))
    \/ \E a \in Operands : UnaryOp(a)
    \/ \E a, b \in Operands, compat \in IsCompatibleAnswers :
          BinaryOp(a, b, compat)

SpecUfunc == Init /\ [][NextUfunc]_vars

\* One context on a pool whose rank reports are not trusted: its
\* construction with every reply the targets can give, then its use and
\* teardown.
NextReported ==
    \/ \E req \in ValidRequests : CreateReported(1, req)
    \/ Use(1, {None})
    \/ Teardown(1)

SpecReported == Init /\ [][NextReported]_vars

\* ---------------------------------------------------- requests on the wire
\* the six helpers every remote call of a context goes through
Helpers == {"_execute", "_push", "_pull", "_execute0", "_push0", "_pull0"}

\* the engines a helper addresses: targets=self.targets, or
\* targets=self.targets[0] for the helpers whose name ends in 0
Addressed(c, h) ==
    IF h \in {"_execute0", "_push0", "_pull0"}
    THEN {targets[c][1]}
    ELSE Range(targets[c])

\* the view's own default: a call hands back a handle at once
Blocks_ViewDefault(h) == FALSE

\* every helper passes block=True: the call returns when all the engines it
\* addressed have answered
Blocks(h) == TRUE

\* the caller sends the next request: the client queues it for each engine
\* it addresses, and the caller waits if the call blocks
Send(c, h) ==
    /\ poolOpen
    /\ status[c] = "ready"
    /\ wire.waiting = 0
    /\ Len(wire.calls) < MaxCalls
    /\ LET k == Len(wire.calls) + 1
           tg == Addressed(c, h)
       IN  wire' = [wire EXCEPT
                      !.calls = Append(@, [helper |-> h, tg |-> tg]),
                      !.queue = [e \in Engines |->
                                   IF e \in tg THEN Append(@[e], k)
                                   ELSE @[e]],
                      !.waiting = IF Blocks(h) THEN k ELSE 0]
    /\ UNCHANGED << poolOpen, commSize, worldRank, ns, status, requested,
                    subRank, targets, keyContext, commKey, gen, collision,
                    lastOp, files >>

\* an engine takes the oldest request of its queue and carries it out
Apply(e) ==
    /\ wire.queue[e] # << >>
    /\ wire' = [wire EXCEPT
                  !.queue[e] = Tail(@),
                  !.applied[e] = Append(@, Head(wire.queue[e]))]
    /\ UNCHANGED << poolOpen, commSize, worldRank, ns, status, requested,
                    subRank, targets, keyContext, commKey, gen, collision,
                    lastOp, files >>

\* the blocking call returns once every engine it addressed has answered
Return ==
    /\ wire.waiting # 0
    /\ \A e \in wire.calls[wire.waiting].tg :
           wire.waiting \in Range(wire.applied[e])
    /\ wire' = [wire EXCEPT !.waiting = 0]
    /\ UNCHANGED << poolOpen, commSize, worldRank, ns, status, requested,
                    subRank, targets, keyContext, commKey, gen, collision,
                    lastOp, files >>

\* One caller that sends requests through the helpers of one context, one
\* after another, while the engines work through their queues.
NextWire ==
    \/ \E req \in ValidRequests : CreateFormed(1, req)
    \/ \E h \in Helpers : Send(1, h)
    \/ \E e \in Engines : Apply(e)
    \/ Return

SpecWire == Init /\ [][NextWire]_vars

\* ------------------------------------------------------------------ claims
Constructed(c) == status[c] \in {"ready", "closing", "closed", "reclosing"}
Keys(c) == { g.key : g \in gen[c] }
CommKeys(c) == { g.key : g \in { h \in gen[c] : h.prefix = CommPrefix } }
BoundOn(e) == DOMAIN ns[e]

\* C1: once a context is constructed, self.targets holds each requested
\* worker exactly once, and targets[i] is the engine whose rank in the
\* context's own communicator is i (0-based); this stays so in every later
\* state of the context.
C1_TargetsInRankOrder ==
    \A c \in Contexts :
        Constructed(c) =>
            /\ Range(targets[c]) = requested[c]
            /\ Len(targets[c]) = Cardinality(requested[c])
            /\ \A i \in 1 .. Len(targets[c]) :
                   subRank[c][targets[c][i]] = i - 1

\* a context constructed from an explicit list whose order is not the rank
\* order, and used since (a key pushed, a purge run)
C1_Witness ==
    \E c \in Contexts :
        /\ Constructed(c)
        /\ Len(targets[c]) = 2
        /\ subRank[c][targets[c][1]] = 0
        /\ targets[c][1] > targets[c][2]
        /\ lastOp.op = "purge" /\ lastOp.ctx = c
        /\ Cardinality(gen[c]) = 3

\* where the context id starts in a key name generated with this prefix
CtxOffset(prefix) == Len(_key_base(prefix)) + Len(Underscore)

\* C2: whatever the interleaving of key generation by the contexts of one
\* pool, no key name is generated twice: every generated name carries its
\* owner's key_context right after the base name, names of different
\* contexts differ, and the names of one context differ pairwise.
C2_NoKeyGeneratedTwice ==
    /\ ~collision
    /\ \A c \in Contexts : \A g \in gen[c] :
           /\ Len(g.key) >= CtxOffset(g.prefix) + Len(keyContext[c])
           /\ SubSeq(g.key, CtxOffset(g.prefix) + 1,
                     CtxOffset(g.prefix) + Len(keyContext[c])) = keyContext[c]
    /\ \A c, d \in Contexts : c # d => Keys(c) \cap Keys(d) = {}
    /\ \A c \in Contexts : Cardinality(Keys(c)) = Cardinality(gen[c])

\* two live contexts with a common target, whose group-handle keys have the
\* same uuid suffix and whose ordinary keys do too, one of them generated
\* after both contexts were constructed
C2_Witness ==
    \E c, d \in Contexts :
        /\ c # d
        /\ status[c] = "ready" /\ status[d] = "ready"
        /\ Range(targets[c]) \cap Range(targets[d]) # {}
        /\ Cardinality(gen[c]) = 3
        /\ \A prefix \in Prefixes :
               \E g \in gen[c], h \in gen[d] :
                   g.prefix = prefix /\ h.prefix = prefix /\ g.uid = h.uid

\* C3: purge_keys() (no prefix, all_contexts=False) of context A removes
\* from A's targets exactly the ordinary keys A generated, and leaves every
\* other name on every engine as it was: the keys of the other contexts, A's
\* own group-handle key and the group-handle keys of the others.
C3_PurgeOwnOrdinaryOnly ==
    [][\A c \in Contexts :
          PurgeKeys(c, None, FALSE) =>
              \A e \in Engines :
                  /\ BoundOn(e)' =
                       IF e \in Range(targets[c])
                       THEN BoundOn(e) \ OrdinaryKeys(c)
                       ELSE BoundOn(e)
                  /\ \A k \in BoundOn(e)' : ns'[e][k] = ns[e][k]]_vars

\* after such a purge by A: on a target A shares with a live context B, B's
\* ordinary key and both group-handle keys are bound and A's ordinary keys
\* are not
C3_Witness ==
    \E c, d \in Contexts :
        /\ c # d
        /\ lastOp.op = "purge" /\ lastOp.ctx = c /\ lastOp.err = "none"
        /\ lastOp.prefix = None /\ ~lastOp.all /\ ~lastOp.again
        /\ status[d] = "ready"
        /\ \E e \in Range(targets[c]) \cap Range(targets[d]) :
               /\ OrdinaryKeys(d) \cap BoundOn(e) # {}
               /\ CommKeys(d) \subseteq BoundOn(e)
               /\ CommKeys(c) \subseteq BoundOn(e)
               /\ OrdinaryKeys(c) \cap BoundOn(e) = {}

NoOrdinaryBound(c) ==
    \A e \in Range(targets[c]) : OrdinaryKeys(c) \cap BoundOn(e) = {}

\* C4: purge_keys is idempotent and does not fail on an empty namespace: a
\* purge_keys call that follows the same call (same context, same
\* arguments, nothing in between) leaves every engine's namespace as it was,
\* and purge_keys() of a context none of whose ordinary keys is bound
\* completes without error and changes nothing.
C4_PurgeIdempotent ==
    [][\A c \in Contexts, prefix \in Prefixes, all \in BOOLEAN :
          PurgeKeys(c, prefix, all) =>
              /\ lastOp'.err = "none"
              /\ SamePurge(c, prefix, all) => ns' = ns
              /\ (prefix = None /\ ~all /\ NoOrdinaryBound(c)) => ns' = ns]_vars

\* purge_keys() run twice in a row by a context that had generated and bound
\* keys: the second call found none of them
C4_Witness ==
    \E c \in Contexts :
        /\ lastOp.op = "purge" /\ lastOp.ctx = c /\ lastOp.err = "none"
        /\ lastOp.again /\ lastOp.prefix = None /\ ~lastOp.all
        /\ Cardinality(gen[c]) = 3
        /\ NoOrdinaryBound(c)

\* C5: purge_keys(all_contexts=True) of context A deletes no group-handle
\* key: the group-handle key of every context stays bound on every engine
\* where it was bound, and the ordinary keys of all contexts are removed
\* from the engines the purge addresses.
C5_PurgeAllKeepsGroupHandles ==
    [][\A c \in Contexts :
          PurgeKeys(c, None, TRUE) =>
              \A e \in Engines :
                  /\ \A d \in Contexts :
                         CommKeys(d) \cap BoundOn(e) \subseteq BoundOn(e)'
                  /\ e \in Range(targets[c]) =>
                         \A d \in Contexts :
                             OrdinaryKeys(d) \cap BoundOn(e)' = {}]_vars

\* C6: after a context is closed (its teardown ran to the end without
\* error), no engine of the pool, inside or outside its targets, holds a
\* name that carries the context's key_context.
C6_NoKeyOutlivesClose ==
    \A c \in Contexts :
        (/\ status[c] = "closed"
         /\ lastOp.op = "cleanup" /\ lastOp.ctx = c /\ lastOp.err = "none")
        => \A e \in Engines : Keys(c) \cap BoundOn(e) = {}

\* C7: tearing down a context that was already torn down is a no-op: it
\* issues no remote command that fails and raises no error.
C7_SecondCloseIsNoOp ==
    \A c \in Contexts :
        (/\ poolOpen
         /\ lastOp.op \in {"cleanup_purge", "cleanup"}
         /\ lastOp.ctx = c /\ lastOp.again
         /\ commKey[c] = None)
        => /\ lastOp.err = "none"
           /\ \A i \in 1 .. Len(lastOp.calls) : lastOp.calls[i].ok

\* C8: in a teardown the group-handle key is deleted last: the deletion is
\* issued only when no ordinary key of the context is bound on any of its
\* targets, and while the teardown runs there is no target on which the
\* group-handle key is gone and an ordinary key of the context is bound.
C8_GroupHandleDeletedLast ==
    [][\A c \in Contexts :
          /\ (lastOp'.op = "cleanup" /\ lastOp'.ctx = c
                /\ lastOp'.calls # << >>)
             => NoOrdinaryBound(c)
          /\ status'[c] \in {"closing", "reclosing"}
             => \A e \in Range(targets[c]) :
                    CommKeys(c) \cap BoundOn(e)' = {}
                    => OrdinaryKeys(c) \cap BoundOn(e)' = {}]_vars

\* a teardown has just deleted the group-handle key of a context that had
\* pushed a key, while another context lives on the same engines
C8_Witness ==
    \E c, d \in Contexts :
        /\ c # d
        /\ status[d] = "ready"
        /\ Range(targets[c]) \cap Range(targets[d]) # {}
        /\ lastOp.op = "cleanup" /\ lastOp.ctx = c /\ lastOp.err = "none"
        /\ lastOp.calls # << >>
        /\ Cardinality(gen[c]) = 3
        /\ \A e \in Range(targets[c]) : Keys(c) \cap BoundOn(e) = {}

\* C9: when the client was closed before the teardown, the teardown ends
\* in a reported leak (LeakedStateWarning) while the context's keys are
\* still bound on the engines.
C9_LeakReported ==
    \A c \in Contexts :
        (/\ ~poolOpen
         /\ lastOp.op \in {"cleanup_purge", "cleanup"} /\ lastOp.ctx = c
         /\ \E e \in Engines : Keys(c) \cap BoundOn(e) # {})
        => lastOp.err = "LeakedStateWarning"

NamesUnknown(req) ==
    req # NoTargets /\ \E i \in 1 .. Len(req) : req[i] \notin Engines

\* C10: constructing a context with a target list that names an engine
\* that is not registered fails with the error that names the first such
\* id; neither the failed construction nor the later finalization of the
\* object makes a remote call or changes an engine's namespace.
C10_UnknownTargetNoRemoteCall ==
    [][\A c \in Contexts :
          /\ (/\ status[c] = "none" /\ status'[c] # "none"
              /\ NamesUnknown(lastOp'.req))
             => /\ status'[c] = "failed"
                /\ lastOp'.err = "ValueError:not registered"
                /\ \E i \in 1 .. Len(lastOp'.req) :
                       /\ lastOp'.errId = lastOp'.req[i]
                       /\ lastOp'.req[i] \notin Engines
                       /\ \A j \in 1 .. (i - 1) : lastOp'.req[j] \in Engines
                /\ lastOp'.calls = << >>
                /\ ns' = ns
          /\ (/\ status[c] = "failed" /\ status'[c] # "failed"
              /\ ~(requested[c] \subseteq Engines))
             => /\ status'[c] = "finalized"
                /\ lastOp'.calls = << >>
                /\ ns' = ns]_vars

\* the object of a construction that was given two unregistered ids has
\* been finalized
C10_Witness ==
    \E c \in Contexts :
        /\ status[c] = "finalized"
        /\ requested[c] = BadEngines
        /\ lastOp.op = "cleanup_purge" /\ lastOp.ctx = c

\* the last call made on a context issued this command to the pool
Issued(cmd) == \E i \in 1 .. Len(lastOp.calls) : lastOp.calls[i].cmd = cmd

\* a construction on the open client from a list of registered engines
CreateReachedRankCheck ==
    /\ lastOp.op = "create" /\ poolOpen
    /\ lastOp.req = NoTargets \/ Range(lastOp.req) \subseteq Engines

\* C11 as stated: a construction whose selected targets do not hold every
\* rank of 0 .. size-1 fails with the incomplete-group error, and the
\* subgroup-creation collective is not issued.
C11_SelectedSubsetMustSpan ==
    (/\ CreateReachedRankCheck
     /\ { worldRank[e] : e \in Workers(lastOp.req) } # 0 .. (commSize - 1))
    => /\ lastOp.err = "ValueError:must encompass all MPI ranks"
       /\ ~Issued("execute:create_comm")

\* C11 amended: a construction on a pool whose view's engines do not hold
\* every rank of 0 .. size-1 fails with the incomplete-group error, whatever
\* targets were selected; the subgroup-creation collective is not issued to
\* any engine, no group-handle key is generated and none is bound.
C11_IncompleteViewFails ==
    (/\ CreateReachedRankCheck
     /\ { worldRank[e] : e \in Engines } # 0 .. (commSize - 1))
    => /\ lastOp.err = "ValueError:must encompass all MPI ranks"
       /\ status[lastOp.ctx] = "failed"
       /\ ~Issued("execute:create_comm")
       /\ commKey[lastOp.ctx] = Unset
       /\ \A e \in Engines : \A k \in BoundOn(e) :
              ~StartsWith(k, _key_base(CommPrefix))

\* a construction from a strict subset of the engines failed on a pool whose
\* communicator holds one process more than the view
C11_Witness ==
    /\ CreateReachedRankCheck
    /\ lastOp.req # NoTargets /\ Workers(lastOp.req) # Engines
    /\ commSize = NumEngines + 1
    /\ lastOp.err = "ValueError:must encompass all MPI ranks"
    /\ Issued("apply:get_size")

\* the create_comm commands among the calls of the last operation
CreateCommCalls ==
    { i \in 1 .. Len(lastOp.calls) :
        lastOp.calls[i].cmd = "execute:create_comm" }

\* C12: a construction that reaches the formation of the group issues the
\* subgroup-creation command exactly once, to every engine of the pool,
\* selected or not, with one rank list for all of them; the constructor is
\* never left blocked in it, and for a list of distinct targets (a strict
\* subset of the pool too) the command completes and leaves the group-handle
\* key bound on every engine.
C12_CollectiveOnWholePool ==
    (lastOp.op = "create" /\ CreateCommCalls # {})
    => /\ Cardinality(CreateCommCalls) = 1
       /\ \A i \in CreateCommCalls :
            LET tg == InitTargets(lastOp.req) IN
              /\ lastOp.calls[i].tg = Engines
              /\ lastOp.calls[i].arg = [n \in 1 .. Len(tg) |-> worldRank[tg[n]]]
              /\ status[lastOp.ctx] # "blocked"
              /\ ~HasDuplicates(tg)
                 => /\ lastOp.calls[i].ok
                    /\ \A e \in Engines : commKey[lastOp.ctx] \in BoundOn(e)

\* a context constructed from a strict subset of the pool: the engine left
\* out took part in the collective and holds the null communicator
C12_Witness ==
    /\ lastOp.op = "create" /\ lastOp.err = "none"
    /\ status[lastOp.ctx] = "ready"
    /\ Workers(lastOp.req) # Engines
    /\ \E e \in Engines \ Workers(lastOp.req) :
           /\ commKey[lastOp.ctx] \in BoundOn(e)
           /\ ns[e][commKey[lastOp.ctx]] = CommNull

\* the engines that are members of the communicator bound under key k
Members(k) ==
    { e \in Engines : k \in BoundOn(e) /\ ns[e][k].kind = "comm" }

\* C13: the rank list written into the subgroup-creation command has one
\* entry per selected target, in the order of the targets, each the
\* pool-wide rank of that target; the communicator of a constructed context
\* has exactly the context's targets as members: wherever the group-handle
\* key is bound it holds a communicator on a target and the null
\* communicator on any other engine.
C13_SubgroupIsTargetSet ==
    /\ (lastOp.op = "create" /\ CreateCommCalls # {})
       => \A i \in CreateCommCalls :
            LET tg == InitTargets(lastOp.req) IN
              /\ Len(lastOp.calls[i].arg) = Len(tg)
              /\ \A n \in 1 .. Len(tg) :
                     lastOp.calls[i].arg[n] = worldRank[tg[n]]
    /\ \A c \in Contexts :
         status[c] = "ready"
         => /\ \A e \in Engines :
                  commKey[c] \in BoundOn(e)
                  => (e \in Members(commKey[c]) <=> e \in Range(targets[c]))
            /\ (lastOp.op = "create" /\ lastOp.ctx = c)
               => Members(commKey[c]) = Range(targets[c])

\* a context constructed from a list of two targets whose pool-wide ranks
\* are not their engine ids
C13_Witness ==
    /\ lastOp.op = "create" /\ lastOp.err = "none"
    /\ status[lastOp.ctx] = "ready"
    /\ Len(lastOp.req) = 2 /\ lastOp.req # NoTargets
    /\ \E i \in CreateCommCalls : lastOp.calls[i].arg # lastOp.req
    /\ Members(commKey[lastOp.ctx]) = Range(lastOp.req)

\* the key the last dump_keys call of context c generated for its own use
LastDumpKey(c) ==
    _generate_key(keyContext[c], None, Uuid4Hex(Cardinality(gen[c])))

\* the header the last dump_keys call selected names with
LastDumpHeader ==
    IF lastOp.all THEN _key_base(lastOp.prefix)
    ELSE _key_header(keyContext[lastOp.ctx], lastOp.prefix)

\* the list is in increasing order of key name, so no key is listed twice
DumpSortedByKey ==
    \A i, j \in 1 .. Len(lastOp.result) :
        i < j => StrLess(lastOp.result[i].key, lastOp.result[j].key)

\* C14 as stated: dump_keys returns a list sorted by key name in which each
\* key appears once, with the list of all the engines on which the key is
\* bound.
C14_DumpListsAllHolders ==
    lastOp.op = "dump"
    => /\ DumpSortedByKey
       /\ \A i \in 1 .. Len(lastOp.result) :
              Range(lastOp.result[i].targets) =
                  { e \in Engines : lastOp.result[i].key \in BoundOn(e) }

\* C14 amended: dump_keys returns a list sorted by key name in which each
\* key appears once, with the list of those of the context's targets on
\* which the key is bound (each once); the keys listed are the names that
\* start with the header and are bound on a target, but for the key the call
\* itself generated.
C14_DumpListsHoldersAmongTargets ==
    lastOp.op = "dump"
    => LET c == lastOp.ctx
           r == lastOp.result
       IN
         /\ DumpSortedByKey
         /\ \A i \in 1 .. Len(r) :
              /\ Range(r[i].targets) =
                    { e \in Range(targets[c]) : r[i].key \in BoundOn(e) }
              /\ Len(r[i].targets) = Cardinality(Range(r[i].targets))
              /\ r[i].targets # << >>
         /\ { r[i].key : i \in 1 .. Len(r) } =
              { k \in UNION { BoundOn(e) : e \in Range(targets[c]) } :
                  StartsWith(k, LastDumpHeader) /\ k # LastDumpKey(c) }

\* dump_keys(all_contexts=True) by a context whose two targets are not in
\* the order of their ids, while another context lives on one of them: a key
\* of the other context is listed with one target, another key with both
C14_Witness ==
    \E c, d \in Contexts :
        /\ c # d /\ status[d] = "ready"
        /\ lastOp.op = "dump" /\ lastOp.ctx = c /\ lastOp.all
        /\ Len(targets[c]) = 2 /\ targets[c][1] > targets[c][2]
        /\ \E i, j \in 1 .. Len(lastOp.result) :
               /\ lastOp.result[i].key \in OrdinaryKeys(d)
               /\ Len(lastOp.result[i].targets) = 1
               /\ Len(lastOp.result[j].targets) = 2

CountMismatch(op) ==
    /\ op.op \in {"save", "load", "load_npy", "load_hdf5"}
    /\ \/ op.name.kind = "list" /\ Len(op.name.val) # Len(targets[op.ctx])
       \/ op.name.kind = "dim_data" /\ op.name.val # Len(targets[op.ctx])

FileAt(name, i) ==
    IF name.kind = "str"
    THEN name.val \o << "_" >> \o << DigitChars[i] >>
         \o << ".", "d", "n", "p", "y" >>
    ELSE name.val[i]

\* a save or a load that completed, given a string or a list of names
Completed(op, which) ==
    op.op = which /\ op.err = "none" /\ op.name.kind \in {"str", "list"}

\* C17: save writes, for every position i of targets, the local array of
\* targets[i] to the file of rank i-1: the (i)-th name of a list, or
\* <name>_<i-1>.dnpy for a single name; load binds on targets[i] the content
\* of that file; and a load that follows a save with the same name argument,
\* by a context with as many targets, yields at every rank the value the
\* saved array held at that rank.
C17_SaveLoadRoundTrip ==
    [][/\ Completed(lastOp', "save")
          => \A i \in 1 .. Len(targets[lastOp'.ctx]) :
               /\ FileAt(lastOp'.name, i) \in DOMAIN files'
               /\ files'[FileAt(lastOp'.name, i)] =
                    ns[targets[lastOp'.ctx][i]][lastOp'.da].v
       /\ Completed(lastOp', "load")
          => \A i \in 1 .. Len(targets[lastOp'.ctx]) :
               /\ lastOp'.da \in DOMAIN ns'[targets[lastOp'.ctx][i]]
               /\ ns'[targets[lastOp'.ctx][i]][lastOp'.da].v =
                    files[FileAt(lastOp'.name, i)]
       /\ (/\ Completed(lastOp, "save") /\ Completed(lastOp', "load")
           /\ lastOp'.name = lastOp.name
           /\ Len(targets[lastOp'.ctx]) = Len(targets[lastOp.ctx]))
          => \A i \in 1 .. Len(targets[lastOp.ctx]) :
               ns'[targets[lastOp'.ctx][i]][lastOp'.da].v =
                   ns[targets[lastOp.ctx][i]][lastOp.da].v]_vars

\* a list of two names loaded by a context that had done nothing else, whose
\* targets are in the other order than those of the first context: it holds
\* different values at its two ranks, those of the first context's array
C17_Witness ==
    /\ Completed(lastOp, "load") /\ lastOp.ctx = 2
    /\ lastOp.name.kind = "list" /\ Len(lastOp.name.val) = 2
    /\ Cardinality(gen[2]) = 4
    /\ Len(targets[1]) = 2 /\ Len(targets[2]) = 2
    /\ targets[1] # targets[2]
    /\ ns[targets[2][1]][lastOp.da].v # ns[targets[2][2]][lastOp.da].v
    /\ \E da \in Arrays(1) :
           \A i \in 1 .. 2 :
               ns[targets[1][i]][da].v = ns[targets[2][i]][lastOp.da].v

\* C18: requests one caller sends one after another through the helpers of
\* one context are carried out in the order they were sent: a call has
\* returned only when every engine it addressed has carried it out, so no
\* engine carries out request k+1 while an engine addressed by request k
\* has not carried out request k, and each engine's log is in sending order.
HasReturned(k) == k \in 1 .. Len(wire.calls) /\ wire.waiting # k

C18_AppliedInIssueOrder ==
    /\ \A k \in 1 .. Len(wire.calls) :
          HasReturned(k) =>
              \A e \in wire.calls[k].tg : k \in Range(wire.applied[e])
    /\ \A k \in 1 .. Len(wire.calls), e \in Engines :
          (k + 1) \in Range(wire.applied[e]) =>
              \A e2 \in wire.calls[k].tg : k \in Range(wire.applied[e2])
    /\ \A e \in Engines :
          \A i, j \in 1 .. Len(wire.applied[e]) :
              i < j => wire.applied[e][i] < wire.applied[e][j]

\* three requests have returned, one of them addressed to the first target
\* alone, so that the engines' logs differ
C18_Witness ==
    /\ Len(wire.calls) = MaxCalls
    /\ wire.waiting = 0
    /\ \E e1, e2 \in Engines :
          /\ Len(wire.applied[e1]) = MaxCalls
          /\ Len(wire.applied[e2]) = MaxCalls - 1
          /\ wire.calls[2].tg = {e1}

\* C19: from its construction until its teardown a context's own
\* group-handle key is bound on every one of its targets, whatever the
\* context itself did in between (keys generated and pushed, dump_keys,
\* delete_key of ordinary keys, purge_keys with any prefix and all_contexts).
C19_OwnGroupHandleStaysBound ==
    \A c \in Contexts :
        status[c] = "ready" =>
            \A e \in Range(targets[c]) : commKey[c] \in BoundOn(e)

\* C20: the completeness check is made over every engine of the view, not
\* over the selected targets.  A construction that reaches the check fails
\* with the incomplete-group error exactly when the ranks reported by all
\* engines of the view differ from 0 .. size-1; and a construction from a
\* strict, non-empty subset of the engines, each named once, succeeds with
\* exactly those targets whenever the view as a whole holds every rank.
C20_CheckOverWholeView ==
    CreateReachedRankCheck =>
        /\ lastOp.err = "ValueError:must encompass all MPI ranks"
             <=> { worldRank[e] : e \in Engines } # 0 .. (commSize - 1)
        /\ (/\ lastOp.req # NoTargets
            /\ lastOp.req # << >>
            /\ ~HasDuplicates(lastOp.req)
            /\ Range(lastOp.req) # Engines
            /\ { worldRank[e] : e \in Engines } = 0 .. (commSize - 1))
           => /\ lastOp.err = "none"
              /\ status[lastOp.ctx] = "ready"
              /\ Range(targets[lastOp.ctx]) = Range(lastOp.req)

\* a context was constructed from a strict, non-empty subset of the engines
\* whose own ranks do not make up 0 .. size-1
C20_Witness ==
    /\ CreateReachedRankCheck
    /\ lastOp.req # NoTargets /\ lastOp.req # << >>
    /\ Range(lastOp.req) # Engines
    /\ { worldRank[e] : e \in Range(lastOp.req) } # 0 .. (commSize - 1)
    /\ lastOp.err = "none"
    /\ status[lastOp.ctx] = "ready"

\* C21: when the ranks the targets report after the group was formed are not
\* a bijection from the target set onto 0 .. n-1 (a rank reported twice, a
\* rank outside the range, a target without an answer), the construction
\* fails with the assertion error, the context is not ready and its targets
\* list is not reordered; when they are a bijection the construction
\* succeeds with the targets in rank order.
IsBijection(req, sub, replied) ==
    /\ \A e \in Workers(req) : e \in replied
    /\ \A e \in replied : sub[e] >= 0 /\ sub[e] < Len(InitTargets(req))
    /\ \A a, b \in replied : sub[a] = sub[b] => a = b

C21_NonBijectiveReplyIsFatal ==
    [][\A req \in ValidRequests :
         \A sub \in ReportedRanks(Workers(req)),
            replied \in SUBSET Workers(req) :
           CreateFormedBy(1, req, sub, replied) =>
             IF IsBijection(req, sub, replied)
             THEN /\ status'[1] = "ready"
                  /\ lastOp'.err = "none"
                  /\ \A e \in Workers(req) : targets'[1][sub[e] + 1] = e
             ELSE /\ status'[1] = "failed"
                  /\ lastOp'.err = "AssertionError"
                  /\ targets'[1] = InitTargets(req)]_vars

\* a construction failed its assertions because two targets reported the
\* same rank
C21_Witness ==
    /\ lastOp.op = "create" /\ lastOp.ctx = 1
    /\ lastOp.err = "AssertionError"
    /\ status[1] = "failed"
    /\ \E a, b \in Range(targets[1]) :
          a # b /\ subRank[1][a] = subRank[1][b]

\* C22: delete_key(key) removes exactly that name from every target of the
\* context and leaves every other name, and every value, on every engine as
\* it was; it ends in an error exactly when some target does not hold the
\* name (as when the same key is deleted twice), never in a silent no-op.
C22_DeleteRemovesOneKey ==
    [][\A c \in Contexts, key \in AllGenerated :
          DeleteKey(c, key) =>
              /\ \A e \in Engines :
                    /\ BoundOn(e)' =
                         IF e \in Range(targets[c])
                         THEN BoundOn(e) \ {key}
                         ELSE BoundOn(e)
                    /\ \A k \in BoundOn(e)' : ns'[e][k] = ns[e][k]
              /\ lastOp'.err # "none"
                   <=> \E e \in Range(targets[c]) : key \notin BoundOn(e)]_vars

\* a delete_key of a key that was no longer bound ended in an error, and
\* another key of the context stayed bound on a target
C22_Witness ==
    \E c \in Contexts :
        /\ lastOp.op = "delete" /\ lastOp.ctx = c
        /\ lastOp.err = "RemoteError"
        /\ \E e \in Range(targets[c]) : OrdinaryKeys(c) \cap BoundOn(e) # {}

\* C23: an elementwise function first resolves one context from its array
\* arguments.  Without an array argument it raises the type error, with
\* arrays of different contexts the context error, with two arrays whose
\* distributions are not compatible the value error, and in these cases no
\* key is generated, nothing is pushed and nothing is executed.  Otherwise
\* (arrays of one context, the other argument a scalar) it succeeds: the
\* result is bound on the targets under a key the context had not generated
\* before, and the arguments' keys keep their values.
NothingDone == gen' = gen /\ ns' = ns /\ lastOp'.calls = << >>

UfuncAsClaimed(args, compat) ==
    LET arrs == { args[i] : i \in { j \in 1 .. Len(args) :
                                      args[j].kind = "array" } }
        c == (CHOOSE x \in arrs : TRUE).ctx
    IN IF arrs = {}
       THEN lastOp'.err = "TypeError:must take DistArray" /\ NothingDone
       ELSE IF \E x, y \in arrs : x.ctx # y.ctx
       THEN lastOp'.err = "ContextError" /\ NothingDone
       ELSE IF Len(args) = 2 /\ (\A i \in 1 .. 2 : args[i].kind = "array")
               /\ ~compat
       THEN lastOp'.err = "ValueError:not compatible" /\ NothingDone
       ELSE IF \E i \in 1 .. Len(args) : args[i].kind = "other"
       THEN TRUE
       ELSE /\ lastOp'.err = "none"
            /\ lastOp'.result \notin AllGenerated
            /\ lastOp'.result \in { g.key : g \in gen'[c] }
            /\ \A e \in Range(targets[c]) :
                  /\ lastOp'.result \in DOMAIN ns'[e]
                  /\ \A x \in arrs : ns'[e][x.key] = ns[e][x.key]

C24_DumpReadsOnly ==
    [][\A c \in Contexts, prefix \in Prefixes, all \in BOOLEAN :
          DumpKeys(c, prefix, all) =>
              /\ \A e \in Engines : BoundOn(e)' = BoundOn(e)
              /\ (/\ lastOp.op = "dump" /\ lastOp.ctx = c
                  /\ lastOp.prefix = prefix /\ lastOp.all = all)
                 => lastOp'.result = lastOp.result]_vars

\* C25: right after a successful construction the only key of the context
\* that is bound on its targets is the group-handle key; no ordinary key of
\* the context is bound, so there is nothing for dump_keys() to list.
C25_FreshContextHoldsGroupHandleOnly ==
    \A c \in Contexts :
        (lastOp.op = "create" /\ lastOp.ctx = c /\ lastOp.err = "none") =>
            \A e \in Range(targets[c]) :
                /\ BoundOn(e) \cap { g.key : g \in gen[c] } = {commKey[c]}
                /\ BoundOn(e) \cap OrdinaryKeys(c) = {}

\* C26: what a constructed context does to namespaces (_key_and_push,
\* delete_key, purge_keys and dump_keys with either value of all_contexts)
\* is sent to the engines of its targets only, and the namespace of every
\* engine outside its targets stays as it was; so purge_keys with
\* all_contexts=True leaves the ordinary keys of other contexts bound on
\* the engines that are not targets of the caller.
C26_OnlyTargetsAddressed ==
    [][\A c \in Contexts :
          Use(c, Prefixes) =>
              /\ \A e \in Engines \ Range(targets[c]) : ns'[e] = ns[e]
              /\ \A i \in 1 .. Len(lastOp'.calls) :
                    lastOp'.calls[i].tg \subseteq Range(targets[c])]_vars

\* purge_keys(all_contexts=True) of one context has run while an engine
\* outside its targets holds an ordinary key of another context
C26_Witness ==
    \E c, d \in Contexts :
        /\ c # d
        /\ lastOp.op = "purge" /\ lastOp.ctx = c /\ lastOp.all
        /\ lastOp.err = "none"
        /\ \E e \in Engines \ Range(targets[c]) :
               OrdinaryKeys(d) \cap BoundOn(e) # {}

====
